---- MODULE Spec2Model ----
(***************************************************************************)
(* Model of the chat-screenshot structuring engine of NexusGong/Nexus:     *)
(* backend/app/services/ocr_service.py (DoubaoOCRService) and its caller   *)
(* backend/app/api/chat.py (extract_text_from_images_batch).               *)
(*                                                                         *)
(* Conventions                                                             *)
(*  - Python floats are modelled by exact rationals, every comparison      *)
(*    being cross-multiplied to integers.  center_x = x + width/2 is kept  *)
(*    doubled (center_x2 = 2*x + width); a gap ratio y_gap/image_height is *)
(*    kept as the pixel gap, the thresholds being scaled alike.            *)
(*  - A text is a string of TextLib; what the code computes on a text      *)
(*    (strip, the regular expressions, the code heuristic) is tabulated    *)
(*    for the strings of the library.  "Wed14:01" stands for a weekday     *)
(*    banner (weekday word followed by a clock time); "duifang" and "wo"   *)
(*    stand for the two speaker names of the source (counterpart, owner).  *)
(*  - A newline-joined text is the sequence of its lines.                  *)
(***************************************************************************)
EXTENDS Integers, Sequences, FiniteSets, TLC

\* ------------------------------------------------------------------ bounds
MaxImages == 2
MaxFrags == 3
MaxRun == 6

\* ------------------------------------------------------- program constants
MaxAttempts == 3
KMeansIters == 10
MinImageHeight == 100

\* ------------------------------------------------------------ arithmetic
Abs(a) == IF a < 0 THEN -a ELSE a
Max(a, b) == IF a >= b THEN a ELSE b
Min(a, b) == IF a <= b THEN a ELSE b

RECURSIVE SeqSum(_)
SeqSum(s) == IF s = <<>> THEN 0 ELSE Head(s) + SeqSum(Tail(s))

RECURSIVE SeqMax(_)
SeqMax(s) == IF Len(s) = 1 THEN s[1] ELSE Max(Head(s), SeqMax(Tail(s)))

RECURSIVE SeqMin(_)
SeqMin(s) == IF Len(s) = 1 THEN s[1] ELSE Min(Head(s), SeqMin(Tail(s)))

\* the subsequence of s at the indexes i with keep[i]
RECURSIVE KeepAt(_, _)
KeepAt(s, keep) ==
  IF s = <<>> THEN <<>>
  ELSE LET n == Len(s)
           front == KeepAt(SubSeq(s, 1, n - 1), keep)
       IN IF keep[n] THEN Append(front, s[n]) ELSE front

\* list.sort / sorted(): a stable sort of records by their integer field key
RECURSIVE InsertSorted(_, _)
InsertSorted(s, e) ==
  IF s = <<>> THEN <<e>>
  ELSE IF Head(s).key <= e.key
       THEN <<Head(s)>> \o InsertSorted(Tail(s), e)
       ELSE <<e>> \o s

RECURSIVE StableSort(_)
StableSort(s) ==
  IF s = <<>> THEN <<>>
  ELSE InsertSorted(StableSort(SubSeq(s, 1, Len(s) - 1)), s[Len(s)])

\* ------------------------------------------------------------------ texts
\* "nihao" stands for a text of CJK characters only, "OKle" for a text of
\* ASCII letters followed by a CJK character
TextLib == {"hi", " hi ", "10:49", "Wed14:01", "x = f(y);", "", "  ",
            "nihao", "OKle", "666"}

\* str.strip()
Strip(t) == CASE t = "  " -> ""
              [] t = " hi " -> "hi"
              [] OTHER -> t

\* system_ui_patterns: weekday followed by a clock time
IsSystemUI(t) == t = "Wed14:01"

\* time_patterns (second list, the one in force): clock times and dates
IsTimestamp(t) == t = "10:49"

\* _is_code_like: keywords, code fences, indentation, symbol or digit density.
\* "x = f(y);" has 5 symbols of 9 characters (ratio >= 0.15); "10:49" has
\* 4 digits of 5 characters (digit ratio >= 0.4) and one symbol.
is_code_like(t) == Strip(t) \in {"x = f(y);", "10:49", "Wed14:01", "666"}

\* --------------------------------------------------- _extract_volc_blocks
\* a provider line: the i-th entries of line_texts and line_rects
RawLine(t, x, y, w, h) == [text |-> t, x |-> x, y |-> y, width |-> w, height |-> h]

Block(line, image_index) ==
  [text |-> Strip(line.text), x |-> line.x, y |-> line.y,
   width |-> line.width, height |-> line.height,
   right |-> line.x + line.width, bottom |-> line.y + line.height,
   center_x2 |-> 2 * line.x + line.width,
   image_index |-> image_index]

\* mutant: the rectangle is not validated
LineKeptAnyRect(line) ==
  /\ line.text # ""
  /\ Strip(line.text) # ""

LineKept(line) ==
  /\ line.text # ""
  /\ Strip(line.text) # ""
  /\ ~(line.width <= 0 \/ line.height <= 0)

extract_volc_blocks(lines, image_index) ==
  LET kept == KeepAt(lines, [i \in 1..Len(lines) |-> LineKept(lines[i])])
  IN [i \in 1..Len(kept) |-> Block(kept[i], image_index)]

\* ----------------------------------------------------- _filter_noise_text
\* mutant: a timestamp is noise wherever it is
filter_noise_text_anywhere(text, center_x2, image_min_x, image_width) ==
  text = "" \/ Strip(text) = "" \/ IsSystemUI(Strip(text)) \/ IsTimestamp(Strip(text))

\* |center_x - (image_min_x + image_width/2)| <= image_width * 0.35
filter_noise_text(text, center_x2, image_min_x, image_width) ==
  IF text = "" \/ Strip(text) = "" THEN TRUE
  ELSE IF IsSystemUI(Strip(text)) THEN TRUE
  ELSE IF ~IsTimestamp(Strip(text)) THEN FALSE
  ELSE IF image_width > 0
       THEN 10 * Abs(center_x2 - 2 * image_min_x - image_width) <= 7 * image_width
       ELSE FALSE

Rights(blocks) == [i \in 1..Len(blocks) |-> blocks[i].right]
Lefts(blocks) == [i \in 1..Len(blocks) |-> blocks[i].x]
Tops(blocks) == [i \in 1..Len(blocks) |-> blocks[i].y]
Bottoms(blocks) == [i \in 1..Len(blocks) |-> blocks[i].bottom]
Heights(blocks) == [i \in 1..Len(blocks) |-> blocks[i].height]

\* step 0 of _process_volc_ocr_blocks
FilterBlocks(blocks) ==
  LET min_x == SeqMin(Lefts(blocks))
      image_width == SeqMax(Rights(blocks)) - min_x
  IN KeepAt(blocks, [i \in 1..Len(blocks) |->
       ~filter_noise_text(blocks[i].text, blocks[i].center_x2, min_x, image_width)])

\* mutant: the blocks are left in the provider's order
SortedYXNone(blocks) == blocks

\* sorted(blocks, key=lambda b: (b["y"], b["x"]))
YXKey(b) == b.y * 100000 + b.x
SortedYX(blocks) ==
  LET keyed == StableSort([i \in 1..Len(blocks) |-> [key |-> YXKey(blocks[i]), val |-> blocks[i]]])
  IN [i \in 1..Len(keyed) |-> keyed[i].val]

\* ------------------------------------------------------- _kmeans_split_1d
\* A centroid is the fraction n/d of doubled pixels.  Initially
\* c1 = min_x + width*0.25 and c2 = min_x + width*0.75.
Centroid(n, d) == [n |-> n, d |-> d]

\* abs(p - c1) <= abs(p - c2)
NearerFirst(p, c1, c2) ==
  Abs(p * c1.d - c1.n) * c2.d <= Abs(p * c2.d - c2.n) * c1.d

GroupMean(points, labels, l, old) ==
  LET g == KeepAt(points, [i \in 1..Len(points) |-> labels[i] = l])
  IN IF g # <<>> THEN Centroid(SeqSum(g), Len(g)) ELSE old

RECURSIVE KMeansLoop(_, _, _, _, _)
KMeansLoop(points, labels, c1, c2, rounds) ==
  IF rounds = 0 THEN [labels |-> labels, c1 |-> c1, c2 |-> c2]
  ELSE LET new == [i \in 1..Len(points) |->
                     IF NearerFirst(points[i], c1, c2) THEN 0 ELSE 1]
           n1 == GroupMean(points, new, 0, c1)
           n2 == GroupMean(points, new, 1, c2)
       IN IF new = labels
          THEN [labels |-> new, c1 |-> n1, c2 |-> n2]
          ELSE KMeansLoop(points, new, n1, n2, rounds - 1)

\* mutant: no clustering, the left cluster is the first quarter of the extent
kmeans_split_quarter(points, min_x_val, width) ==
  [i \in 1..Len(points) |-> IF 2 * points[i] <= 4 * min_x_val + width THEN 0 ELSE 1]

\* mutant: the labels of the two clusters exchanged
kmeans_split_flipped(points, min_x_val, width) ==
  IF points = <<>> THEN <<>>
  ELSE LET r == KMeansLoop(points, [i \in 1..Len(points) |-> 0],
                           Centroid(4 * min_x_val + width, 2),
                           Centroid(4 * min_x_val + 3 * width, 2), KMeansIters)
       IN [i \in 1..Len(points) |-> 1 - r.labels[i]]

\* the labels returned (0 = the cluster of the smaller centre)
kmeans_split_1d(points, min_x_val, width) ==
  IF points = <<>> THEN <<>>
  ELSE LET r == KMeansLoop(points, [i \in 1..Len(points) |-> 0],
                           Centroid(4 * min_x_val + width, 2),
                           Centroid(4 * min_x_val + 3 * width, 2), KMeansIters)
       IN IF r.c1.n * r.c2.d > r.c2.n * r.c1.d
          THEN [i \in 1..Len(points) |-> 1 - r.labels[i]]
          ELSE r.labels

\* the fallback of step 4: center_x < x_threshold, x_threshold = min_x + image_width/2
CentreLeft(blocks, min_x, image_width) ==
  KeepAt(blocks, [i \in 1..Len(blocks) |-> blocks[i].center_x2 < 2 * min_x + image_width])

\* mutant: the fallback's right side by > instead of >=
CentreRightStrict(blocks, min_x, image_width) ==
  KeepAt(blocks, [i \in 1..Len(blocks) |-> blocks[i].center_x2 > 2 * min_x + image_width])

CentreRight(blocks, min_x, image_width) ==
  KeepAt(blocks, [i \in 1..Len(blocks) |-> blocks[i].center_x2 >= 2 * min_x + image_width])

\* steps 2-4 of _process_volc_ocr_blocks on the filtered, sorted blocks
SplitSides(blocks) ==
  LET min_x == SeqMin(Lefts(blocks))
      image_width == SeqMax(Rights(blocks)) - min_x
      labels == kmeans_split_1d([i \in 1..Len(blocks) |-> blocks[i].center_x2],
                                min_x, image_width)
      l == KeepAt(blocks, [i \in 1..Len(blocks) |-> labels[i] = 0])
      r == KeepAt(blocks, [i \in 1..Len(blocks) |-> labels[i] # 0])
  IN IF Len(l) = 0 \/ Len(r) = 0
     THEN [left |-> CentreLeft(blocks, min_x, image_width),
           right |-> CentreRight(blocks, min_x, image_width), fallback |-> TRUE]
     ELSE [left |-> l, right |-> r, fallback |-> FALSE]

\* mutant: the speaker names of the two sides exchanged
SideGroupsSwapped == << [side |-> "left", speaker_name |-> "wo"],
                        [side |-> "right", speaker_name |-> "duifang"] >>

\* the pairs of step 5
SideGroups == << [side |-> "left", speaker_name |-> "duifang"],
                 [side |-> "right", speaker_name |-> "wo"] >>

\* ---------------------------------------------------- _merge_volc_bubbles
\* With n = len(blocks) and H = image_height, a ratio threshold r is kept as
\* a scaled pixel gap: lb10n = 10*n*H*line_break_ratio_threshold,
\* mg100n = 100*n*H*message_gap_ratio_threshold, typn = n*H*typical_small_ratio.
ImageHeight(blocks) == Max(SeqMax(Bottoms(blocks)) - SeqMin(Tops(blocks)), MinImageHeight)

\* the y_gap >= 0 of adjacent blocks, in list order
NonNegGaps(blocks) ==
  LET all == [i \in 1..(Len(blocks) - 1) |-> blocks[i + 1].y - blocks[i].bottom]
  IN KeepAt(all, [i \in 1..Len(all) |-> all[i] >= 0])

SortedInts(s) ==
  LET keyed == StableSort([i \in 1..Len(s) |-> [key |-> s[i], val |-> s[i]]])
  IN [i \in 1..Len(keyed) |-> keyed[i].val]

\* q(r) = s[min(len(s) - 1, max(0, int(len(s) * r)))], r given in tenths
\* mutant: every quantile is the largest gap
QuantileLast(s, tenths) == s[Len(s)]

Quantile(s, tenths) == s[Min(Len(s) - 1, Max(0, (Len(s) * tenths) \div 10)) + 1]

Thresholds(blocks) ==
  LET n == Len(blocks)
      sum_height == SeqSum(Heights(blocks))
      gaps == SortedInts(NonNegGaps(blocks))
  IN IF gaps # <<>>
     THEN LET small == Quantile(gaps, 3)
              large == Quantile(gaps, 7)
              lb == Max(13 * n * small, 9 * sum_height)
          IN [lb10n |-> lb, mg100n |-> Max(90 * n * large, 16 * lb), typn |-> n * small]
     ELSE [lb10n |-> 13 * sum_height, mg100n |-> 20 * 13 * sum_height, typn |-> sum_height]

NewBubble(block, code_state, image_height) ==
  [text |-> <<block.text>>, top |-> block.y, bottom |-> block.bottom,
   left |-> block.x, right |-> block.right, blocks |-> <<block>>,
   anchor_left |-> block.x, anchor_right |-> block.right,
   anchor_width |-> Max(1, block.right - block.x),
   image_height |-> image_height,
   is_code |-> code_state /\ is_code_like(block.text),
   code_hits |-> IF code_state /\ is_code_like(block.text) THEN 1 ELSE 0]

XAlignedExpandedBox(bubble, block, side) ==
  LET diff == IF side = "left" THEN Abs(block.x - bubble.left)
              ELSE Abs(block.right - bubble.right)
      col_width == Max(8, Max(1, bubble.right - bubble.left))
  IN 100 * diff <= Max(600, Min(1800, 18 * col_width))

\* x_alignment: the block's edge against the bubble's anchor, within
\* strict_anchor_tol = max(6, min(18, col_width * 0.18))
XAligned(bubble, block, side) ==
  LET diff == IF side = "left" THEN Abs(block.x - bubble.anchor_left)
              ELSE Abs(block.right - bubble.anchor_right)
      col_width == Max(8, Max(1, bubble.anchor_width))
  IN 100 * diff <= Max(600, Min(1800, 18 * col_width))

\* width_ratio >= num/den
WidthRatioAtLeast(bubble, block, num, den) ==
  LET curr_width == Max(1, bubble.right - bubble.left)
      blk_width == Max(1, block.right - block.x)
  IN den * Min(curr_width, blk_width) >= num * Max(curr_width, blk_width)

\* bubble_median_ratio, as a pixel gap
BubbleMedianGap(bubble) ==
  LET bb == bubble.blocks
      internal == [j \in 1..(Len(bb) - 1) |-> bb[j + 1].y - bb[j].bottom]
  IN SortedInts(internal)[(Len(internal) \div 2) + 1]

ShouldMergeNoCertain(bubble, block, side, th, n) ==
  LET y_gap == block.y - bubble.bottom
      x_alignment == XAligned(bubble, block, side)
      s1 == 10 * n * y_gap <= th.lb10n /\ x_alignment
      s3 == /\ Len(bubble.blocks) >= 2
            /\ 10 * y_gap <= 22 * BubbleMedianGap(bubble)
            /\ (x_alignment \/ WidthRatioAtLeast(bubble, block, 3, 4))
      s3b == /\ WidthRatioAtLeast(bubble, block, 4, 5)
             /\ x_alignment
             /\ 100 * n * y_gap <= th.mg100n
      in_code_mode == \/ bubble.is_code
                      \/ /\ is_code_like(block.text)
                         /\ is_code_like(bubble.blocks[Len(bubble.blocks)].text)
      s4 == in_code_mode /\ x_alignment
      accepted == s1 \/ s3 \/ s3b \/ s4
  IN accepted /\ ~(100 * n * y_gap >= th.mg100n)

ShouldMerge(bubble, block, side, th, n) ==
  LET y_gap == block.y - bubble.bottom
      x_alignment == XAligned(bubble, block, side)
      s1 == 10 * n * y_gap <= th.lb10n /\ x_alignment
      s2 == 2 * n * y_gap <= 3 * th.typn
      s3 == /\ Len(bubble.blocks) >= 2
            /\ 10 * y_gap <= 22 * BubbleMedianGap(bubble)
            /\ (x_alignment \/ WidthRatioAtLeast(bubble, block, 3, 4))
      s3b == /\ WidthRatioAtLeast(bubble, block, 4, 5)
             /\ x_alignment
             /\ 100 * n * y_gap <= th.mg100n
      in_code_mode == \/ bubble.is_code
                      \/ /\ is_code_like(block.text)
                         /\ is_code_like(bubble.blocks[Len(bubble.blocks)].text)
      s4 == in_code_mode /\ x_alignment
      accepted == s1 \/ s2 \/ s3 \/ s3b \/ s4
  IN accepted /\ ~(100 * n * y_gap >= th.mg100n)

\* mutant: the box of the bubble is not widened
MergeIntoKeepBox(bubble, block) ==
  LET hits == IF is_code_like(block.text) THEN bubble.code_hits + 1 ELSE bubble.code_hits
  IN [bubble EXCEPT !.text = Append(@, block.text),
                    !.blocks = Append(@, block),
                    !.code_hits = hits,
                    !.is_code = @ \/ hits >= 2]

MergeInto(bubble, block) ==
  LET hits == IF is_code_like(block.text) THEN bubble.code_hits + 1 ELSE bubble.code_hits
  IN [bubble EXCEPT !.text = Append(@, block.text),
                    !.bottom = Max(@, block.bottom),
                    !.left = Min(@, block.x),
                    !.right = Max(@, block.right),
                    !.blocks = Append(@, block),
                    !.code_hits = hits,
                    !.is_code = @ \/ hits >= 2]

MergeBlockIntoFirst(bubbles, block, side, th, n, image_height) ==
  IF bubbles = <<>> THEN <<NewBubble(block, TRUE, image_height)>>
  ELSE LET k == Len(bubbles)
       IN IF ShouldMerge(bubbles[k], block, side, th, n)
          THEN [bubbles EXCEPT ![1] = MergeInto(@, block)]
          ELSE Append(bubbles, NewBubble(block, TRUE, image_height))

\* one iteration of the loop over blocks: the bubbles after the block
MergeBlock(bubbles, block, side, th, n, image_height) ==
  IF bubbles = <<>> THEN <<NewBubble(block, TRUE, image_height)>>
  ELSE LET k == Len(bubbles)
       IN IF ShouldMerge(bubbles[k], block, side, th, n)
          THEN [bubbles EXCEPT ![k] = MergeInto(@, block)]
          ELSE Append(bubbles, NewBubble(block, TRUE, image_height))

\* the whole loop, as one evaluation (the early return for one block included)
RECURSIVE MergeFrom(_, _, _, _)
MergeFrom(bubbles, blocks, pos, side) ==
  IF pos > Len(blocks) THEN bubbles
  ELSE MergeFrom(MergeBlock(bubbles, blocks[pos], side, Thresholds(blocks),
                            Len(blocks), ImageHeight(blocks)),
                 blocks, pos + 1, side)

merge_volc_bubbles(blocks, side) ==
  IF blocks = <<>> THEN <<>>
  ELSE IF Len(blocks) = 1 THEN <<NewBubble(blocks[1], FALSE, 0)>>
  ELSE MergeFrom(<<>>, SortedYX(blocks), 1, side)

\* ----------------------------------------- _process_volc_ocr_blocks, step 5-6
\* the messages of one side's bubbles, numbered after the n already there;
\* image_index and blocks record where a message comes from (the source's
\* message keeps neither: they are dropped with _sort_y)
RECURSIVE BubbleMessages(_, _, _)
BubbleMessages(bubbles, group, n) ==
  IF bubbles = <<>> THEN <<>>
  ELSE LET b == Head(bubbles)
       IN IF \A i \in 1..Len(b.text) : Strip(b.text[i]) = ""
          THEN BubbleMessages(Tail(bubbles), group, n)
          ELSE <<[speaker_name |-> group.speaker_name,
                  speaker_side |-> group.side,
                  text |-> b.text,
                  block_index |-> n + 1,
                  key |-> IF b.blocks # <<>> THEN b.top ELSE 0,
                  blocks |-> b.blocks]>>
               \o BubbleMessages(Tail(bubbles), group, n + 1)

\* mutant: the messages of an image are left unsorted (left side first)
SortMessagesNone(all_messages) == all_messages

\* all_messages.sort(key=lambda m: m.get("_sort_y", 0))
SortMessages(all_messages) == StableSort(all_messages)

\* mutant: a message keeps the number it got when its bubble was converted
MessageOwnIndex(m, block_index) ==
  [speaker_name |-> m.speaker_name, speaker_side |-> m.speaker_side,
   text |-> m.text, block_index |-> m.block_index]

Message(m, block_index) ==
  [speaker_name |-> m.speaker_name, speaker_side |-> m.speaker_side,
   text |-> m.text, block_index |-> block_index]

\* _process_volc_ocr_blocks as one evaluation: the messages of one image, in
\* order, each with the fragments it was built from
process_volc_ocr_blocks(img_blocks) ==
  IF img_blocks = <<>> THEN <<>>
  ELSE IF FilterBlocks(img_blocks) = <<>> THEN <<>>
  ELSE LET split == SplitSides(SortedYX(FilterBlocks(img_blocks)))
           lm == BubbleMessages(merge_volc_bubbles(SortedYX(split.left), "left"),
                                SideGroups[1], 0)
           rm == BubbleMessages(merge_volc_bubbles(SortedYX(split.right), "right"),
                                SideGroups[2], Len(lm))
       IN SortMessages(lm \o rm)

\* ------------------------------------------------ _volc_ocr_recognition_raw
\* what the SDK call does for one image: "non_dict" is a payload (the
\* response, or its Result) that is a non-empty string or list
SdkKinds == {"result", "empty_data", "no_lines", "sdk_error", "raises", "non_dict"}
Response(kind, lines) == [kind |-> kind, lines |-> lines]

NoResult == [type |-> "none", data_empty |-> TRUE, data_dict |-> TRUE, lines |-> <<>>]

volc_ocr_recognition_raw(resp) ==
  IF resp.kind \in {"sdk_error", "raises"}
  THEN [type |-> "exception", data_empty |-> TRUE, data_dict |-> TRUE, lines |-> <<>>]
  ELSE [type |-> "dict", data_empty |-> resp.kind = "empty_data",
        data_dict |-> resp.kind # "non_dict",
        lines |-> IF resp.kind = "result" THEN resp.lines ELSE <<>>]

\* ------------------------------------------ _extract_with_volc_ocr, step 2
FailedImages(results) ==
  KeepAt([i \in 1..Len(results) |-> i],
         [i \in 1..Len(results) |-> results[i].type # "dict"])

ImageBlocks(result, image_index) ==
  IF result.type # "dict" \/ result.data_empty \/ result.lines = <<>> THEN <<>>
  ELSE extract_volc_blocks(result.lines, image_index)

RECURSIVE AllBlocks(_, _)
AllBlocks(results, idx) ==
  IF idx > Len(results) THEN <<>>
  ELSE ImageBlocks(results[idx], idx) \o AllBlocks(results, idx + 1)

\* sorted(blocks_by_image.keys())
ImageKeys(blocks) ==
  LET present == {blocks[i].image_index : i \in 1..Len(blocks)}
      ids == [i \in 1..MaxImages |-> i]
  IN KeepAt(ids, [i \in 1..Len(ids) |-> i \in present])

\* mutant: the images' blocks are not told apart
BlocksOfAnyImage(blocks, img) == blocks

BlocksOfImage(blocks, img) ==
  KeepAt(blocks, [i \in 1..Len(blocks) |-> blocks[i].image_index = img])

\* language detection of step 3: "chinese" for a CJK character, "english"
\* for an ASCII letter
HasCJK(t) == t \in {"Wed14:01", "nihao", "OKle"}
HasAsciiAlpha(t) == t \in {"hi", "x = f(y);", "OKle"}

LanguageCJKFirst(msgs) ==
  LET lines == UNION {{msgs[i].text[j] : j \in 1..Len(msgs[i].text)} : i \in 1..Len(msgs)}
      chinese == \E t \in lines : HasCJK(t)
      english == \E t \in lines : HasAsciiAlpha(t)
  IN IF chinese THEN "zhongwen" ELSE IF english THEN "yingwen" ELSE "mixed"

Language(msgs) ==
  LET lines == UNION {{msgs[i].text[j] : j \in 1..Len(msgs[i].text)} : i \in 1..Len(msgs)}
      chinese == \E t \in lines : HasCJK(t)
      english == \E t \in lines : HasAsciiAlpha(t)
  IN IF chinese /\ english THEN "mixed" ELSE IF chinese THEN "zhongwen" ELSE "yingwen"

\* ================================================================ inputs
\* The provider lines the model draws from: two columns of 60px bubbles on a
\* 300px wide capture at four heights, and lines that exercise the noise
\* filter, the code heuristic, strip() and the geometry check.
GridLines ==
  {RawLine("hi", x, y, 60, 20) : x \in {0, 240}, y \in {0, 10, 30, 100}}

SpecialLines ==
  { RawLine("10:49", 120, 10, 60, 20),
    RawLine("10:49", 0, 30, 40, 20),
    RawLine("Wed14:01", 100, 0, 80, 20),
    RawLine("x = f(y);", 0, 30, 100, 20),
    RawLine("hi", 0, 30, 200, 20),
    RawLine(" hi ", 240, 30, 60, 20),
    RawLine("hi", 0, 0, 0, 20),
    RawLine("  ", 0, 100, 60, 20) }

RawLines == GridLines \cup SpecialLines

LineRank(l) == l.y * 100000 + l.x * 100 + l.width

\* the lines of a set in reading order (top to bottom)
RECURSIVE ReadingOrder(_)
ReadingOrder(S) ==
  IF S = {} THEN <<>>
  ELSE LET l == CHOOSE a \in S : \A b \in S : LineRank(a) <= LineRank(b)
       IN <<l>> \o ReadingOrder(S \ {l})

Reverse(s) == [i \in 1..Len(s) |-> s[Len(s) + 1 - i]]

FailureResponses == {Response(k, <<>>) : k \in SdkKinds \ {"result"}}

\* one image: any set of at most MaxFrags lines, top-down or bottom-up
RichResponses ==
  {Response("result", ReadingOrder(S)) :
      S \in {T \in SUBSET RawLines : Cardinality(T) \in 1..MaxFrags}}
  \cup {Response("result", Reverse(ReadingOrder(S))) :
      S \in {T \in SUBSET RawLines : Cardinality(T) \in 2..MaxFrags}}
  \cup FailureResponses

\* several images: each one of a few fixed captures, or a failure
CapBoth == <<RawLine("hi", 240, 0, 60, 20), RawLine("hi", 0, 30, 60, 20)>>
CapInterleaved ==
  <<RawLine("hi", 0, 0, 60, 20), RawLine("hi", 240, 10, 60, 20),
    RawLine("hi", 0, 30, 60, 20)>>
CapOne == <<RawLine("hi", 240, 0, 60, 20)>>
CapNoise == <<RawLine("Wed14:01", 100, 0, 80, 20)>>
CapCJK == <<RawLine("nihao", 0, 0, 60, 20)>>
CapCJKLatin == <<RawLine("OKle", 0, 0, 60, 20)>>
CapDigits == <<RawLine("666", 240, 0, 60, 20)>>
CapMalformed ==
  <<RawLine("hi", 0, 0, 60, 20), RawLine("hi", 0, 30, 0, 20),
    RawLine("hi", 0, 60, 60, 0), RawLine("hi", 0, 90, -5, 20),
    RawLine("", 0, 120, 60, 20), RawLine("  ", 0, 150, 60, 20),
    RawLine(" hi ", 240, 180, 60, 20)>>

CannedResponses ==
  {Response("result", c) : c \in {CapBoth, CapInterleaved, CapOne, CapNoise,
                                  CapMalformed, CapCJK, CapCJKLatin, CapDigits}}
  \cup FailureResponses

Batches(m) ==
  IF m = "quality"
  THEN {[i \in 1..n |-> Response("result", CapOne)] : n \in 1..MaxImages}
  ELSE {<<r>> : r \in RichResponses}
       \cup UNION {[1..n -> CannedResponses] : n \in 2..MaxImages}

\* ------------------------------------------------- single-image captures
\* A column of lines, each 20px high and below the last one by its gap; on
\* the left side a line starts off pixels from x = 0, on the right side it
\* ends off pixels before x = 1000.
RECURSIVE Stack(_, _, _)
Stack(steps, side, y) ==
  IF steps = <<>> THEN <<>>
  ELSE LET s == Head(steps)
           top == y + s.gap
           x == IF side = "left" THEN s.off ELSE 1000 - s.off - s.width
       IN <<RawLine(s.text, x, top, s.width, 20)>>
          \o Stack(Tail(steps), side, top + 20)

\* one line of the other speaker, at the opposite edge of the capture
Counterpart(side) == RawLine("hi", IF side = "left" THEN 940 ELSE 0, 0, 60, 20)

\* a column of one speaker facing a line of the other
Facing(steps, side) == <<Counterpart(side)>> \o Stack(steps, side, 0)

\* aligned lines of one width whose gaps are small or one line height and more
EvenRunsOf(t, n) ==
  {<<[gap |-> 0, off |-> 0, width |-> 60, text |-> t]>> \o g :
     g \in [1..n -> [gap : {0, 2, 3, 40}, off : {0}, width : {60}, text : {t}]]}

EvenRuns ==
  UNION {EvenRunsOf(t, n) : t \in {"hi", "x = f(y);"}, n \in 1..(MaxRun - 1)}

\* lines of two widths and two offsets, overlapping, close, apart or far
MixedRunsOf(t, n) ==
  {<<f>> \o g :
     f \in [gap : {0}, off : {0, 20}, width : {60, 100}, text : {t}],
     g \in [1..n -> [gap : {-10, 0, 2, 10, 40}, off : {0, 20},
                     width : {60, 100}, text : {t}]]}

MixedRuns ==
  UNION {MixedRunsOf(t, n) : t \in {"hi", "x = f(y);"}, n \in 1..(MaxFrags - 1)}

\* aligned lines, each one code or plain, narrow or wide, close or apart
CodeRunsOf(n) ==
  {<<f>> \o g :
     f \in [gap : {0}, off : {0}, width : {60, 100}, text : {"hi", "x = f(y);"}],
     g \in [1..n -> [gap : {2, 25}, off : {0}, width : {60, 100},
                     text : {"hi", "x = f(y);"}]]}

CodeRuns ==
  UNION {CodeRunsOf(n) : n \in 1..(MaxFrags - 1)}

\* one speaker only: left edges within 5px of each other, any widths
AlignedRuns ==
  UNION {{<<f>> \o g :
            f \in [gap : {0}, off : {0, 5}, width : {20, 60, 300}, text : {"hi"}],
            g \in [1..n -> [gap : {10}, off : {0, 5}, width : {20, 60, 300},
                            text : {"hi"}]]} :
         n \in 1..(MaxFrags - 1)}

\* two column bands of a 1000px wide capture: x in [0,300] and x in [700,1000]
LeftBand == {<<0, 60>>, <<0, 300>>, <<100, 200>>, <<240, 60>>}
RightBand == {<<700, 300>>, <<700, 60>>, <<800, 200>>, <<940, 60>>}
BandLines(f) == [k \in 1..Len(f) |-> RawLine("hi", f[k][1], 30 * (k - 1), f[k][2], 20)]
BandCaptures ==
  UNION {{BandLines(f) :
            f \in {h \in [1..n -> LeftBand \cup RightBand] :
                     /\ \E k \in 1..n : h[k] \in LeftBand
                     /\ \E k \in 1..n : h[k] \in RightBand}} :
         n \in 2..MaxFrags}

\* a short line on each side and one long line that spans the middle
LongCaptures ==
  {<<RawLine("hi", 0, 0, 60, 20), RawLine("hi", 940, 30, 60, 20),
     RawLine("hi", l[1], 60, l[2], 20)>> :
      l \in {<<100, 850>>, <<350, 600>>, <<50, 800>>, <<50, 850>>, <<450, 550>>}}

\* clock times among two message lines that span the capture's height
\* (y from 0 to 200): one centred within the top tenth, one at the left
\* edge half way down, or both
ClockCaptures ==
  {<<RawLine("hi", a[1], 0, a[2], 20)>>
   \o (IF place \in {"top", "both"}
       THEN <<RawLine(t,
                (Min(a[1], b[1]) + Max(a[1] + a[2], b[1] + b[2]) - w) \div 2, 0, w, 20)>>
       ELSE <<>>)
   \o (IF place = "corner"
       THEN <<RawLine(t, Min(a[1], b[1]), 0, w, 20)>>
       ELSE <<>>)
   \o (IF place \in {"mid", "both"}
       THEN <<RawLine(t, Min(a[1], b[1]), 90, w, 20)>>
       ELSE <<>>)
   \o <<RawLine("hi", b[1], 180, b[2], 20)>> :
      a \in {<<0, 60>>, <<0, 100>>, <<240, 60>>},
      b \in {<<0, 60>>, <<240, 60>>, <<900, 100>>},
      w \in {40, 60}, place \in {"top", "mid", "both", "corner"},
      t \in {"10:49", "Wed14:01"}}

Captures ==
  {Facing(r, s) : r \in EvenRuns \cup MixedRuns \cup CodeRuns, s \in {"left", "right"}}
  \cup {Stack(r, "left", 0) : r \in AlignedRuns}
  \cup BandCaptures \cup ClockCaptures \cup LongCaptures

\* ================================================================= state
VARIABLES
  mode,            \* "fast" | "quality" (extract_text_from_images_batch's form field)
  images,          \* per image, what the provider answers for it
  pc,              \* where the batch call is
  task,            \* per image, its gathered task: "pending" | "inflight" | "done"
  calls,           \* per image, the provider calls made for it
  ocr_results,     \* per image, what its task returned
  finished,        \* the images in the order their tasks ended
  cancel_event,    \* the handler's asyncio.Event
  done_at_cancel,  \* the images whose call had returned when cancel_event was set
  doubao_attempt,  \* the attempt of the quality mode's request loop
  all_blocks, failed_images, queue,
  blocks, left_blocks, right_blocks, fallback, side_i,
  merge_blocks, pos, bubbles, image_bubbles, all_messages,
  messages,        \* structured_messages
  msg_src,         \* per message of messages: its image and its fragments
  outcome,         \* what the batch call returned or raised
  settings,        \* the configured daily OCR limits
  today,           \* the UTC day the clock is in
  usage_records,   \* UsageRecord rows: a count per identity, usage_type and day
  requests         \* per request of the endpoint: its identity, its mode, where it is

quotaVars == <<settings, today, usage_records, requests>>

vars == <<quotaVars, mode, images, pc, task, calls, ocr_results, finished, cancel_event, done_at_cancel,
          doubao_attempt, all_blocks, failed_images, queue, blocks, left_blocks,
          right_blocks, fallback, side_i, merge_blocks, pos, bubbles, image_bubbles,
          all_messages, messages, msg_src, outcome>>

gatherVars == <<task, calls, ocr_results, finished>>
imageVars == <<blocks, left_blocks, right_blocks, fallback, side_i, image_bubbles, all_messages>>
mergeVars == <<merge_blocks, pos, bubbles>>
resultVars == <<all_blocks, failed_images, queue, messages, msg_src>>

N == Len(images)
NoOutcome == [kind |-> "none"]

\* ---------------------------------------------------------- daily quota
MaxRequests == 3   \* requests of the endpoint followed together
MaxLimit == 2      \* the largest configured daily limit tried
MaxDay == 1        \* the clock runs through the days 0..MaxDay

\* who asks: current_user, or the (ip_address, session_token) of a guest
Identities == {"user", "guest"}

Modes == {"fast", "quality"}

Days == 0..MaxDay

\* the four limits of Settings, each an integer the deployment sets
Configs ==
  {[guest_ocr_fast_limit |-> g, guest_ocr_quality_limit |-> 1,
    user_ocr_fast_limit |-> g + 1, user_ocr_quality_limit |-> g] : g \in 1..MaxLimit}

get_ocr_limit(config, identity, m) ==
  IF identity = "user"
    THEN IF m = "fast" THEN config.user_ocr_fast_limit ELSE config.user_ocr_quality_limit
    ELSE IF m = "fast" THEN config.guest_ocr_fast_limit ELSE config.guest_ocr_quality_limit

usage_type(m) == IF m = "fast" THEN "ocr_fast" ELSE "ocr_quality"

UsageTypes == {usage_type(m) : m \in Modes}

NoUsage == [identity \in Identities, ut \in UsageTypes, d \in Days |-> 0]

RECURSIVE CountSince(_, _, _, _)
\* the rows of one identity and usage_type with created_at >= today_start
CountSince(records, identity, ut, d) ==
  IF d > MaxDay THEN 0
  ELSE records[identity, ut, d] + CountSince(records, identity, ut, d + 1)

get_ocr_usage_count(records, identity, m, day) ==
  CountSince(records, identity, usage_type(m), day)

\* (can_use, used, limit)
check_ocr_limit(config, records, identity, m, day) ==
  LET used == get_ocr_usage_count(records, identity, m, day)
      limit == get_ocr_limit(config, identity, m)
  IN  [can_use |-> used < limit, used |-> used, limit |-> limit]

\* db.add(UsageRecord(...)); db.commit(): created_at is the database's now()
record_ocr_usage(records, identity, m, day, commit_ok) ==
  IF commit_ok
    THEN [records EXCEPT ![identity, usage_type(m), day] = @ + 1]
    ELSE records

\* the batch call is followed on its own, no other request in sight
QuotaIdle ==
  /\ settings = [guest_ocr_fast_limit |-> 5, guest_ocr_quality_limit |-> 2,
                 user_ocr_fast_limit |-> 10, user_ocr_quality_limit |-> 5]
  /\ today = 0
  /\ usage_records = NoUsage
  /\ requests = <<>>

Init ==
  /\ mode \in {"fast", "quality"}
  /\ images \in Batches(mode)
  /\ pc = "start"
  /\ task = [i \in 1..Len(images) |-> "pending"]
  /\ calls = [i \in 1..Len(images) |-> 0]
  /\ ocr_results = [i \in 1..Len(images) |-> NoResult]
  /\ finished = <<>>
  /\ cancel_event = FALSE
  /\ done_at_cancel = {}
  /\ doubao_attempt = 0
  /\ all_blocks = <<>> /\ failed_images = <<>> /\ queue = <<>>
  /\ blocks = <<>> /\ left_blocks = <<>> /\ right_blocks = <<>>
  /\ fallback = FALSE /\ side_i = 1
  /\ merge_blocks = <<>> /\ pos = 1 /\ bubbles = <<>>
  /\ image_bubbles = <<>> /\ all_messages = <<>>
  /\ messages = <<>> /\ msg_src = <<>>
  /\ outcome = NoOutcome
  /\ QuotaIdle

\* =============================================================== actions
\* extract_text_from_images_batch picks the service by mode; in fast mode
\* _extract_with_volc_ocr creates one task per image and awaits them all
Dispatch ==
  /\ pc = "start"
  /\ pc' = IF mode = "quality" THEN "doubao" ELSE "gather"
  /\ UNCHANGED <<quotaVars, mode, images, gatherVars, cancel_event, done_at_cancel, doubao_attempt,
                 resultVars, imageVars, mergeVars, outcome>>

\* a gathered task runs up to its provider call (run_in_executor); the
\* event loop starts the tasks in the order they were created
TaskStart(i) ==
  /\ pc = "gather"
  /\ task[i] = "pending"
  /\ \A j \in 1..(i - 1) : task[j] # "pending"
  /\ task' = [task EXCEPT ![i] = "inflight"]
  /\ calls' = [calls EXCEPT ![i] = @ + 1]
  /\ UNCHANGED <<quotaVars, mode, images, pc, ocr_results, finished, cancel_event, done_at_cancel,
                 doubao_attempt, resultVars, imageVars, mergeVars, outcome>>

\* the provider call of image i returns or raises; its task ends with it
TaskComplete(i) ==
  /\ pc = "gather"
  /\ task[i] = "inflight"
  /\ task' = [task EXCEPT ![i] = "done"]
  /\ ocr_results' = [ocr_results EXCEPT ![i] = volc_ocr_recognition_raw(images[i])]
  /\ finished' = Append(finished, i)
  /\ UNCHANGED <<quotaVars, mode, images, pc, calls, cancel_event, done_at_cancel,
                 doubao_attempt, resultVars, imageVars, mergeVars, outcome>>

\* _watch_disconnect sees the client gone while the call is awaited
WatchDisconnect ==
  /\ pc \in {"gather", "doubao"}
  /\ ~cancel_event
  /\ cancel_event' = TRUE
  /\ done_at_cancel' = {i \in 1..N : task[i] = "done"}
  /\ UNCHANGED <<quotaVars, mode, images, pc, gatherVars, doubao_attempt,
                 resultVars, imageVars, mergeVars, outcome>>

\* asyncio.gather returns when every task has ended
GatherDone == \A i \in 1..N : task[i] = "done"

\* mutant: the results in the order the tasks ended
GatherAsCompleted == [k \in 1..N |-> ocr_results[finished[k]]]

\* the list gather returns: the tasks' results in the order of the awaitables
GatherResults == [i \in 1..N |-> ocr_results[i]]

EmptyResponse(failed) ==
  [kind |-> "response", text |-> <<>>, confidence10 |-> 0, language |-> "mixed",
   structured_messages |-> <<>>, participants |-> <<>>, word_count |-> 0,
   failed_images |-> failed, failed_images_none |-> FALSE,
   error |-> IF failed # <<>> THEN "all images failed" ELSE "no text recognised"]

\* data.get(...) on a non-empty data that is not a dict: AttributeError,
\* which the handler of the whole method turns into an exception
DataGetFails(results) ==
  \E i \in 1..Len(results) :
     results[i].type = "dict" /\ ~results[i].data_empty /\ ~results[i].data_dict

\* step 2: the loop over ocr_results, the empty return, the grouping by image
Collect ==
  /\ pc = "gather"
  /\ GatherDone
  /\ IF DataGetFails(GatherResults)
     THEN /\ pc' = "done" /\ outcome' = [kind |-> "raised"]
          /\ UNCHANGED <<all_blocks, failed_images, queue>>
     ELSE LET ab == AllBlocks(GatherResults, 1)
              failed == FailedImages(GatherResults)
          IN /\ all_blocks' = ab
             /\ failed_images' = failed
             /\ queue' = ImageKeys(ab)
             /\ IF ab = <<>>
                THEN pc' = "done" /\ outcome' = EmptyResponse(failed)
                ELSE pc' = "image" /\ outcome' = outcome
  /\ UNCHANGED <<quotaVars, mode, images, gatherVars, cancel_event, done_at_cancel, doubao_attempt,
                 messages, msg_src, imageVars, mergeVars>>

AfterImage(q) == IF q = <<>> THEN "respond" ELSE "image"

\* _process_volc_ocr_blocks, steps 0-4, for the next image
ProcessImage ==
  /\ pc = "image"
  /\ LET filtered == FilterBlocks(BlocksOfImage(all_blocks, Head(queue)))
     IN IF filtered = <<>>
        THEN /\ queue' = Tail(queue)
             /\ pc' = AfterImage(Tail(queue))
             /\ UNCHANGED imageVars
        ELSE LET split == SplitSides(SortedYX(filtered))
             IN /\ blocks' = SortedYX(filtered)
                /\ left_blocks' = split.left
                /\ right_blocks' = split.right
                /\ fallback' = split.fallback
                /\ side_i' = 1
                /\ image_bubbles' = <<>>
                /\ all_messages' = <<>>
                /\ pc' = "side"
                /\ queue' = queue
  /\ UNCHANGED <<quotaVars, mode, images, gatherVars, cancel_event, done_at_cancel, doubao_attempt,
                 all_blocks, failed_images, messages, msg_src, mergeVars, outcome>>

Group(i) == IF i = 1 THEN left_blocks ELSE right_blocks

\* step 5 for one side: skip an empty group; else sort and enter the merge
BeginSide ==
  /\ pc = "side"
  /\ IF Group(side_i) = <<>>
     THEN /\ IF side_i = 1 THEN side_i' = 2 /\ pc' = "side"
                           ELSE side_i' = side_i /\ pc' = "finish"
          /\ UNCHANGED mergeVars
     ELSE /\ merge_blocks' = SortedYX(Group(side_i))
          /\ pos' = 1
          /\ side_i' = side_i
          /\ IF Len(Group(side_i)) = 1
             THEN bubbles' = <<NewBubble(Group(side_i)[1], FALSE, 0)>> /\ pc' = "convert"
             ELSE bubbles' = <<>> /\ pc' = "merge"
  /\ UNCHANGED <<quotaVars, mode, images, gatherVars, cancel_event, done_at_cancel, doubao_attempt,
                 resultVars, blocks, left_blocks, right_blocks, fallback, image_bubbles,
                 all_messages, outcome>>

\* one iteration of the loop of _merge_volc_bubbles
MergeStep ==
  /\ pc = "merge"
  /\ bubbles' = MergeBlock(bubbles, merge_blocks[pos], SideGroups[side_i].side,
                           Thresholds(merge_blocks), Len(merge_blocks),
                           ImageHeight(merge_blocks))
  /\ pos' = pos + 1
  /\ pc' = IF pos = Len(merge_blocks) THEN "convert" ELSE "merge"
  /\ UNCHANGED <<quotaVars, mode, images, gatherVars, cancel_event, done_at_cancel, doubao_attempt,
                 resultVars, imageVars, merge_blocks, outcome>>

\* the bubbles of the side become messages
ConvertSide ==
  /\ pc = "convert"
  /\ all_messages' = all_messages
                     \o BubbleMessages(bubbles, SideGroups[side_i], Len(all_messages))
  /\ image_bubbles' = image_bubbles
       \o [k \in 1..Len(bubbles) |-> [side |-> SideGroups[side_i].side, bubble |-> bubbles[k]]]
  /\ IF side_i = 1 THEN side_i' = 2 /\ pc' = "side"
                   ELSE side_i' = side_i /\ pc' = "finish"
  /\ UNCHANGED <<quotaVars, mode, images, gatherVars, cancel_event, done_at_cancel, doubao_attempt,
                 resultVars, blocks, left_blocks, right_blocks, fallback, mergeVars, outcome>>

\* step 6, and the caller's renumbering into the batch's message list
FinishImage ==
  /\ pc = "finish"
  /\ LET img_messages == SortMessages(all_messages)
         n == Len(messages)
     IN /\ messages' = messages
             \o [k \in 1..Len(img_messages) |-> Message(img_messages[k], n + k)]
        /\ msg_src' = msg_src
             \o [k \in 1..Len(img_messages) |->
                   [image_index |-> Head(queue), blocks |-> img_messages[k].blocks]]
  /\ queue' = Tail(queue)
  /\ pc' = AfterImage(Tail(queue))
  /\ UNCHANGED <<quotaVars, mode, images, gatherVars, cancel_event, done_at_cancel, doubao_attempt,
                 all_blocks, failed_images, imageVars, mergeVars, outcome>>

\* the OCRResponse of step 3
Respond ==
  /\ pc = "respond"
  /\ outcome' =
       [kind |-> "response",
        text |-> [k \in 1..Len(messages) |-> messages[k].text],
        confidence10 |-> 9, language |-> Language(messages),
        structured_messages |-> messages, participants |-> <<"wo", "duifang">>,
        word_count |-> Len(all_blocks),
        failed_images |-> failed_images, failed_images_none |-> failed_images = <<>>,
        error |-> ""]
  /\ pc' = "done"
  /\ UNCHANGED <<quotaVars, mode, images, gatherVars, cancel_event, done_at_cancel, doubao_attempt,
                 resultVars, imageVars, mergeVars>>

\* _extract_with_doubao_ocr: one request for the whole batch, posted at most
\* MaxAttempts times; a connection error or a 5xx is retried, a 4xx is not
DoubaoPost(answer) ==
  /\ pc = "doubao"
  /\ doubao_attempt < MaxAttempts
  /\ doubao_attempt' = doubao_attempt + 1
  /\ calls' = [i \in 1..N |-> calls[i] + 1]
  /\ CASE answer = "ok" ->
            /\ pc' = "done"
            /\ outcome' = [kind |-> "response_doubao"]
       [] answer = "client_error" ->
            /\ pc' = "done"
            /\ outcome' = [kind |-> "raised"]
       [] OTHER ->
            IF doubao_attempt + 1 >= MaxAttempts
            THEN pc' = "done" /\ outcome' = [kind |-> "raised"]
            ELSE pc' = "doubao" /\ outcome' = outcome
  /\ UNCHANGED <<quotaVars, mode, images, task, ocr_results, finished, cancel_event, done_at_cancel,
                 resultVars, imageVars, mergeVars>>

Next ==
  \/ Dispatch
  \/ \E i \in 1..N : TaskStart(i)
  \/ \E i \in 1..N : TaskComplete(i)
  \/ WatchDisconnect
  \/ Collect
  \/ ProcessImage
  \/ BeginSide
  \/ MergeStep
  \/ ConvertSide
  \/ FinishImage
  \/ Respond
  \/ \E a \in {"ok", "client_error", "retryable"} : DoubaoPost(a)

Spec == Init /\ [][Next]_vars

\* One fast-mode call on one capture, followed through the whole pipeline.
CaptureInit ==
  /\ mode = "fast"
  /\ images \in {<<Response("result", c)>> : c \in Captures}
  /\ pc = "start"
  /\ task = <<"pending">>
  /\ calls = <<0>>
  /\ ocr_results = <<NoResult>>
  /\ finished = <<>>
  /\ cancel_event = FALSE
  /\ done_at_cancel = {}
  /\ doubao_attempt = 0
  /\ all_blocks = <<>> /\ failed_images = <<>> /\ queue = <<>>
  /\ blocks = <<>> /\ left_blocks = <<>> /\ right_blocks = <<>>
  /\ fallback = FALSE /\ side_i = 1
  /\ merge_blocks = <<>> /\ pos = 1 /\ bubbles = <<>>
  /\ image_bubbles = <<>> /\ all_messages = <<>>
  /\ messages = <<>> /\ msg_src = <<>>
  /\ outcome = NoOutcome
  /\ QuotaIdle

CaptureNext ==
  \/ Dispatch
  \/ \E i \in 1..N : TaskStart(i)
  \/ \E i \in 1..N : TaskComplete(i)
  \/ Collect
  \/ ProcessImage
  \/ BeginSide
  \/ MergeStep
  \/ ConvertSide
  \/ FinishImage
  \/ Respond

CaptureSpec == CaptureInit /\ [][CaptureNext]_vars

\* Several requests of extract_text_from_images_batch against one usage table;
\* the OCR call of each is followed only to its end: it returns or it raises.
OcrIdle ==
  /\ mode = "fast" /\ images = <<>> /\ pc = "start"
  /\ task = <<>> /\ calls = <<>> /\ ocr_results = <<>>
  /\ finished = <<>> /\ cancel_event = FALSE /\ done_at_cancel = {}
  /\ doubao_attempt = 0
  /\ all_blocks = <<>> /\ failed_images = <<>> /\ queue = <<>>
  /\ blocks = <<>> /\ left_blocks = <<>> /\ right_blocks = <<>>
  /\ fallback = FALSE /\ side_i = 1
  /\ merge_blocks = <<>> /\ pos = 1 /\ bubbles = <<>>
  /\ image_bubbles = <<>> /\ all_messages = <<>>
  /\ messages = <<>> /\ msg_src = <<>>
  /\ outcome = NoOutcome

ocrVars == <<mode, images, pc, task, calls, ocr_results, finished, cancel_event,
             done_at_cancel, doubao_attempt, all_blocks, failed_images, queue, blocks,
             left_blocks, right_blocks, fallback, side_i, merge_blocks, pos, bubbles,
             image_bubbles, all_messages, messages, msg_src, outcome>>

QuotaInit ==
  /\ OcrIdle
  /\ settings \in Configs
  /\ today = 0
  /\ usage_records = NoUsage
  /\ requests \in [1..MaxRequests ->
                     [identity : Identities, mode : Modes, pc : {"new"},
                      day : {0}, recorded : {FALSE}]]

\* check_ocr_limit before the OCR call: 403 when the day's count has reached the limit
CheckLimit(r) ==
  /\ requests[r].pc = "new"
  /\ LET c == check_ocr_limit(settings, usage_records, requests[r].identity,
                              requests[r].mode, today)
     IN  requests' = [requests EXCEPT ![r].pc = IF c.can_use THEN "ocr" ELSE "rejected",
                                      ![r].day = today]
  /\ UNCHANGED <<settings, today, usage_records, ocrVars>>

\* the awaited OCR call returns: record_ocr_usage, then the result goes to the client
\* (whether or not the row was committed)
OcrReturns(r, commit_ok) ==
  /\ requests[r].pc = "ocr"
  /\ usage_records' = record_ocr_usage(usage_records, requests[r].identity,
                                       requests[r].mode, today, commit_ok)
  /\ requests' = [requests EXCEPT ![r].pc = "served", ![r].day = today,
                                  ![r].recorded = commit_ok]
  /\ UNCHANGED <<settings, today, ocrVars>>

\* the awaited OCR call raises: 502, record_ocr_usage is not reached
OcrRaises(r) ==
  /\ requests[r].pc = "ocr"
  /\ requests' = [requests EXCEPT ![r].pc = "failed", ![r].day = today]
  /\ UNCHANGED <<settings, today, usage_records, ocrVars>>

\* UTC midnight passes: today_start moves on
Midnight ==
  /\ today < MaxDay
  /\ today' = today + 1
  /\ UNCHANGED <<settings, usage_records, requests, ocrVars>>

QuotaNext ==
  \/ \E r \in 1..MaxRequests : CheckLimit(r)
  \/ \E r \in 1..MaxRequests, commit_ok \in BOOLEAN : OcrReturns(r, commit_ok)
  \/ \E r \in 1..MaxRequests : OcrRaises(r)
  \/ Midnight

QuotaSpec == QuotaInit /\ [][QuotaNext]_vars

TypeOK ==
  /\ pc \in {"start", "gather", "image", "side", "merge", "convert", "finish",
             "respond", "doubao", "done"}
  /\ side_i \in {1, 2}

\* ================================================================ claims
Count(seq, e) == Cardinality({i \in 1..Len(seq) : seq[i] = e})
Range(seq) == {seq[i] : i \in 1..Len(seq)}

RECURSIVE Flatten(_)
Flatten(bs) == IF bs = <<>> THEN <<>> ELSE Head(bs).blocks \o Flatten(Tail(bs))

ProviderFails(k) == images[k].kind \in {"sdk_error", "raises"}
ProviderEmpty(k) == images[k].kind \in {"empty_data", "no_lines"}
\* the fast path has ended; it has returned a result
Ended == pc = "done" /\ mode = "fast"
Returned == Ended /\ outcome.kind # "raised"
IsPlaceholder(m) == "is_placeholder" \in DOMAIN m /\ m.is_placeholder
HasPlaceholder(k) ==
  /\ outcome.kind = "response"
  /\ \E i \in 1..Len(outcome.structured_messages) :
        /\ IsPlaceholder(outcome.structured_messages[i])
        /\ i <= Len(msg_src) /\ msg_src[i].image_index = k
\* the sides and texts of the messages of image k in the result, in order
ResultOfImage(k) ==
  LET ms == KeepAt(messages, [i \in 1..Len(messages) |-> msg_src[i].image_index = k])
  IN [i \in 1..Len(ms) |-> <<ms[i].speaker_side, ms[i].text>>]
\* the same for image k processed alone
AloneOfImage(k) ==
  LET ms == process_volc_ocr_blocks(
              ImageBlocks(volc_ocr_recognition_raw(images[k]), k))
  IN [i \in 1..Len(ms) |-> <<ms[i].speaker_side, ms[i].text>>]

\* C1: when the provider call of image k of a batch fails (and another image
\* succeeds), the batch still returns a result whose failed_images are exactly
\* the failed images, which holds a placeholder message for image k, and in
\* which every other image's messages are those it yields alone.
C1_FailureIsolation ==
  (Returned /\ (\E k \in 1..N : ProviderFails(k)) /\ (\E j \in 1..N : AloneOfImage(j) # <<>>))
  => /\ outcome.kind = "response"
     /\ Range(outcome.failed_images) = {k \in 1..N : ProviderFails(k)}
     /\ \A k \in 1..N : ProviderFails(k) => HasPlaceholder(k)
     /\ \A j \in 1..N : ~ProviderFails(j) => ResultOfImage(j) = AloneOfImage(j)

\* C2: every message has speaker_side left or right, with the speaker name
\* of that side (left = counterpart, right = device owner), and its
\* fragments are those the classifier put on that side.
C2_SpeakerSide ==
  /\ \A m \in Range(messages) \cup Range(all_messages) :
        \/ m.speaker_side = "left" /\ m.speaker_name = "duifang"
        \/ m.speaker_side = "right" /\ m.speaker_name = "wo"
  /\ \A m \in Range(all_messages) :
        Range(m.blocks) \subseteq
          Range(IF m.speaker_side = "left" THEN left_blocks ELSE right_blocks)

C2_Witness ==
  /\ pc = "done"
  /\ \E m \in Range(messages) : m.speaker_side = "left"
  /\ \E m \in Range(messages) : m.speaker_side = "right"

\* C3: once an image is merged, every fragment left by the noise filter is in
\* exactly one bubble, on the side the split gave it, and a bubble's fragments
\* are of one image; while a side is merged, the bubbles hold exactly the
\* fragments consumed so far, in order.
C3_Partition ==
  /\ pc \in {"side", "merge", "convert", "finish"} =>
        \A b \in Range(blocks) : Count(blocks, b) = Count(left_blocks, b) + Count(right_blocks, b)
  /\ pc = "merge" => Flatten(bubbles) = SubSeq(merge_blocks, 1, pos - 1)
  /\ pc = "convert" => Flatten(bubbles) = merge_blocks
  /\ pc = "finish" =>
        /\ \A b \in Range(blocks) :
              Count(blocks, b) =
                Count(Flatten([k \in 1..Len(image_bubbles) |-> image_bubbles[k].bubble]), b)
        /\ \A k \in 1..Len(image_bubbles) :
              LET bb == image_bubbles[k].bubble.blocks
              IN /\ bb # <<>>
                 /\ \A b \in Range(bb) : b.image_index = Head(queue)
                 /\ Range(bb) \subseteq
                      Range(IF image_bubbles[k].side = "left" THEN left_blocks ELSE right_blocks)

C3_Witness ==
  /\ pc = "finish"
  /\ ~fallback
  /\ left_blocks # <<>> /\ right_blocks # <<>>
  /\ \E k \in 1..Len(image_bubbles) : Len(image_bubbles[k].bubble.blocks) >= 2

\* the fallback split is reached too
C3_FallbackReached == pc = "finish" /\ fallback /\ Len(blocks) >= 2

\* C4: in the message list of a batch, a message comes before another only
\* if its image index is smaller, or the image is the same and its first
\* fragment's y is not larger.
C4_GlobalOrder ==
  \A i, j \in 1..Len(messages) :
     i < j =>
       \/ msg_src[i].image_index < msg_src[j].image_index
       \/ /\ msg_src[i].image_index = msg_src[j].image_index
          /\ msg_src[i].blocks[1].y <= msg_src[j].blocks[1].y

C4_Witness ==
  /\ pc = "done"
  /\ \E i, j \in 1..Len(messages) :
        /\ i < j
        /\ msg_src[i].image_index = 1 /\ msg_src[j].image_index = 1
        /\ messages[i].speaker_side = "right" /\ messages[j].speaker_side = "left"
  /\ \E i \in 1..Len(messages) : msg_src[i].image_index = 2

C6_CancelOutcome ==
  (Returned /\ N >= 2 /\ cancel_event /\ 1 \in done_at_cancel /\ 2 \notin done_at_cancel)
  => \/ outcome.kind = "cancelled"
     \/ /\ outcome.kind = "response"
        /\ \A i \in 1..Len(msg_src) : msg_src[i].image_index = 1

\* C7: the provider is called for each image at least once and at most
\* MaxAttempts times, and an image is recorded as failed only after
\* MaxAttempts calls.
C7_BoundedRetry ==
  /\ \A k \in 1..N : calls[k] <= MaxAttempts
  /\ pc = "done" => \A k \in 1..N : calls[k] >= 1
  /\ \A k \in Range(failed_images) : calls[k] = MaxAttempts

\* C8: an image whose provider call returns no text (empty data or no lines)
\* is in failed_images and has a placeholder message in the result.
C8_EmptyIsFailure ==
  Returned =>
    \A k \in 1..N :
       ProviderEmpty(k) =>
          /\ outcome.kind = "response"
          /\ k \in Range(outcome.failed_images)
          /\ HasPlaceholder(k)

\* C9: at most one provider call is in flight, and the call of image i+1 is
\* not started before the call of image i has ended.
C9_Sequential ==
  /\ Cardinality({i \in 1..N : task[i] = "inflight"}) <= 1
  /\ \A i \in 1..(N - 1) : task[i + 1] # "pending" => task[i] = "done"

\* the gaps between the consecutive fragments of a run
RunGaps(run) == [i \in 1..(Len(run) - 1) |-> run[i + 1].y - run[i].bottom]
EvenHeight(run) == \A i \in 1..Len(run) : run[i].height = run[1].height
\* every fragment of the run has the edge of its side where the first has it
AnchorAlignedRun(run, side) ==
  \A i \in 1..Len(run) :
     IF side = "left" THEN run[i].x = run[1].x ELSE run[i].right = run[1].right
\* gap i is at least twice the fragment height, every other at most 15% of it
DominantAt(run, i) ==
  /\ RunGaps(run)[i] >= 2 * run[1].height
  /\ \A j \in 1..(Len(run) - 1) : j # i => 20 * RunGaps(run)[j] <= 3 * run[1].height
\* the merger's bubbles are the run cut in two after fragment i
SplitAt(i) ==
  /\ Len(bubbles) = 2
  /\ bubbles[1].blocks = SubSeq(merge_blocks, 1, i)
  /\ bubbles[2].blocks = SubSeq(merge_blocks, i + 1, Len(merge_blocks))

\* C11, as claimed: an aligned run of equal-height fragments with exactly one
\* gap of at least twice the height, all others at most 15% of it, is merged
\* into exactly two bubbles cut at that gap.
C11_DominantGapAnyRun ==
  pc = "convert" =>
    \A i \in 1..(Len(merge_blocks) - 1) :
       (/\ EvenHeight(merge_blocks)
        /\ AnchorAlignedRun(merge_blocks, SideGroups[side_i].side)
        /\ DominantAt(merge_blocks, i))
       => SplitAt(i)

\* C11, amended: the same for a run of at least three fragments with no
\* negative gap (the thresholds are quantiles of the run's non-negative gaps:
\* a lone gap is its own "small" gap), gaps 2, 3, 40, 2, 3 at height 20 included.
C11_DominantGap ==
  pc = "convert" =>
    \A i \in 1..(Len(merge_blocks) - 1) :
       (/\ Len(merge_blocks) >= 3
        /\ \A j \in 1..(Len(merge_blocks) - 1) : RunGaps(merge_blocks)[j] >= 0
        /\ EvenHeight(merge_blocks)
        /\ AnchorAlignedRun(merge_blocks, SideGroups[side_i].side)
        /\ DominantAt(merge_blocks, i))
       => SplitAt(i)

C11_Witness ==
  /\ pc = "convert"
  /\ RunGaps(merge_blocks) = <<2, 3, 40, 2, 3>>
  /\ AnchorAlignedRun(merge_blocks, SideGroups[side_i].side)
  /\ SplitAt(3)

\* the fragments of the image in process, as extracted, and their extent
RawBlocks == BlocksOfImage(all_blocks, Head(queue))
InImage == pc \in {"side", "merge", "convert", "finish"}
ExtentLeft == SeqMin(Lefts(RawBlocks))
ExtentRight == SeqMax(Rights(RawBlocks))
ExtentTop == SeqMin(Tops(RawBlocks))
ExtentBottom == SeqMax(Bottoms(RawBlocks))
\* b's centre is the horizontal middle of the extent and lies in its top tenth
CentredTop(b) ==
  /\ b.center_x2 = ExtentLeft + ExtentRight
  /\ 10 * (2 * b.y + b.height - 2 * ExtentTop) <= 2 * (ExtentBottom - ExtentTop)
\* b starts at the left edge of the extent and its centre is half way down
LeftMid(b) ==
  /\ b.x = ExtentLeft
  /\ 2 * b.y + b.height = ExtentTop + ExtentBottom
\* b is narrower than 30% of the extent's width
Narrow(b) == 10 * b.width < 3 * (ExtentRight - ExtentLeft)

\* C12, as claimed: among other fragments, a clock time centred in the top
\* tenth is dropped as noise, and one left-aligned half way down is kept.
C12_ClockByPosition ==
  InImage =>
    \A b \in Range(RawBlocks) :
       (b.text = "10:49" /\ Len(RawBlocks) >= 2) =>
          /\ CentredTop(b) => b \notin Range(blocks)
          /\ LeftMid(b) => b \in Range(blocks)

\* C12, amended: a centred clock time is dropped; a left-aligned one half
\* way down is kept when it is narrower than 30% of the extent's width, its
\* centre being then more than 35% of the width away from the middle.
C12_ClockByCentre ==
  InImage =>
    \A b \in Range(RawBlocks) :
       (b.text = "10:49" /\ Len(RawBlocks) >= 2) =>
          /\ CentredTop(b) => b \notin Range(blocks)
          /\ (LeftMid(b) /\ Narrow(b)) => b \in Range(blocks)
          /\ (LeftMid(b) /\ ~Narrow(b)) => b \notin Range(blocks)

C12_Witness ==
  /\ InImage
  /\ \E b \in Range(RawBlocks) :
        b.text = "10:49" /\ CentredTop(b) /\ b \notin Range(blocks)
  /\ \E b \in Range(RawBlocks) :
        b.text = "10:49" /\ LeftMid(b) /\ Narrow(b) /\ b \in Range(blocks)

\* C13: an image of at least two fragments whose left edges all lie within
\* 5px of each other is classified as one speaker: one side gets every
\* fragment, and every message of the image has the same speaker_side.
C13_SingleSpeaker ==
  (/\ InImage
   /\ Len(blocks) >= 2
   /\ \A a, b \in Range(blocks) : Abs(a.x - b.x) <= 5)
  => /\ left_blocks = <<>> \/ right_blocks = <<>>
     /\ \A m1, m2 \in Range(all_messages) : m1.speaker_side = m2.speaker_side

\* the two column bands of a 1000px wide capture
InLeftBand(b) == b.x >= 0 /\ b.right <= 300
InRightBand(b) == b.x >= 700 /\ b.right <= 1000
TwoBands ==
  /\ \A b \in Range(blocks) : InLeftBand(b) \/ InRightBand(b)
  /\ \E b \in Range(blocks) : InLeftBand(b)
  /\ \E b \in Range(blocks) : InRightBand(b)

\* C14: when the fragments of an image lie in the two column bands, both
\* non-empty, the left side is exactly the left band's fragments and the
\* right side exactly the right band's, and both sides are present.
C14_TwoBands ==
  (InImage /\ TwoBands) =>
     /\ left_blocks = KeepAt(blocks, [i \in 1..Len(blocks) |-> InLeftBand(blocks[i])])
     /\ right_blocks = KeepAt(blocks, [i \in 1..Len(blocks) |-> InRightBand(blocks[i])])
     /\ left_blocks # <<>> /\ right_blocks # <<>>
     /\ pc = "finish" =>
          \A k \in 1..Len(image_bubbles) :
             \A b \in Range(image_bubbles[k].bubble.blocks) :
                IF image_bubbles[k].side = "left" THEN InLeftBand(b) ELSE InRightBand(b)

\* the bands' inner edges are both occupied, the outer ones are not
C14_Witness ==
  /\ pc = "finish"
  /\ TwoBands
  /\ \E b \in Range(left_blocks) : b.right = 300
  /\ \E b \in Range(right_blocks) : b.x = 700
  /\ \A b \in Range(blocks) : b.x > 0 /\ b.right < 1000
  /\ Len(blocks) >= 3

\* what a fast-mode call returns as a function of the images' provider
\* responses alone
RECURSIVE BatchMessages(_, _, _)
BatchMessages(keys, all, n) ==
  IF keys = <<>> THEN <<>>
  ELSE LET ms == process_volc_ocr_blocks(BlocksOfImage(all, Head(keys)))
       IN [k \in 1..Len(ms) |-> Message(ms[k], n + k)]
          \o BatchMessages(Tail(keys), all, n + Len(ms))
ByResponses ==
  LET results == [i \in 1..N |-> volc_ocr_recognition_raw(images[i])]
      all == AllBlocks(results, 1)
  IN [structured_messages |-> BatchMessages(ImageKeys(all), all, 0),
      failed_images |-> FailedImages(results)]

\* C15: the message list (order, sides, texts, block_index) and failed_images
\* a batch call returns are those determined by the images' provider
\* responses, in whatever order the provider calls ended.
C15_OrderDeterminism ==
  Returned =>
    /\ outcome.kind = "response"
    /\ outcome.structured_messages = ByResponses.structured_messages
    /\ outcome.failed_images = ByResponses.failed_images

\* the call of image 2 ended before the call of image 1, the two images differ
C15_Witness ==
  /\ Returned
  /\ finished[1] = 2
  /\ ResultOfImage(1) # <<>> /\ ResultOfImage(2) # <<>>
  /\ ResultOfImage(1) # ResultOfImage(2)

C17_BlockIndex ==
  /\ \A k \in 1..Len(messages) : messages[k].block_index = k
  /\ (Returned /\ outcome.kind = "response") =>
        \A k \in 1..Len(outcome.structured_messages) :
           outcome.structured_messages[k].block_index = k

\* a returned list that continues past an image whose messages the sort
\* has reordered (the right side's message first)
C17_Witness ==
  /\ Returned
  /\ outcome.kind = "response"
  /\ Len(outcome.structured_messages) >= 3
  /\ outcome.structured_messages[1].speaker_side = "right"
  /\ msg_src[1].image_index = 1 /\ msg_src[2].image_index = 1
  /\ msg_src[Len(msg_src)].image_index = 2

\* the merger's current bubble and the fragment it is about to decide on
CurrentBubble == bubbles[Len(bubbles)]
NextBlock == merge_blocks[pos]
Deciding == pc = "merge" /\ pos > 1
MergeSide == SideGroups[side_i].side
\* y_gap / image_height against the thresholds of the side's fragments
NextGap == NextBlock.y - CurrentBubble.bottom
GapExceedsMessageGap ==
  100 * Len(merge_blocks) * NextGap > Thresholds(merge_blocks).mg100n
\* the step merges the fragment into the current bubble
Merged ==
  /\ Len(bubbles') = Len(bubbles)
  /\ bubbles'[Len(bubbles)].blocks = Append(CurrentBubble.blocks, NextBlock)
StartsBubble ==
  /\ Len(bubbles') = Len(bubbles) + 1
  /\ bubbles'[Len(bubbles')].blocks = <<NextBlock>>
LockedCode == CurrentBubble.is_code /\ CurrentBubble.code_hits >= 2

\* C18: a fragment whose gap ratio exceeds the message-gap threshold is not
\* merged into the current bubble, unless the bubble is in locked code mode
\* and the fragment is aligned with its anchor, in which case it is merged.
C18_MessageGapRejection ==
  [][(Deciding /\ GapExceedsMessageGap) =>
        IF LockedCode /\ XAligned(CurrentBubble, NextBlock, MergeSide)
        THEN Merged ELSE StartsBubble]_vars

\* gap_ratio <= typical_small_ratio * 1.5 for the fragment being decided
WithinTypicalGap ==
  2 * Len(merge_blocks) * NextGap <= 3 * Thresholds(merge_blocks).typn

\* C19: a fragment whose gap ratio is at most 1.5 times the typical line gap
\* is merged into the current bubble, whatever its alignment and whatever
\* the gaps of the capture are; the message-gap guard never rejects it.
C19_CertainSameBubble ==
  [][(Deciding /\ WithinTypicalGap) => Merged]_vars

\* a fragment that is not aligned with the anchor has just been merged on
\* the strength of its small gap
C19_Witness ==
  /\ pc \in {"merge", "convert"}
  /\ pos > 1
  /\ bubbles # <<>>
  /\ LET b == bubbles[Len(bubbles)]
     IN /\ Len(b.blocks) = 2
        /\ b.blocks[2] = merge_blocks[pos - 1]
        /\ ~XAligned(b, b.blocks[2], MergeSide)
        /\ b.blocks[2].y - b.blocks[1].bottom > 0
        /\ 2 * Len(merge_blocks) * (b.blocks[2].y - b.blocks[1].bottom)
             <= 3 * Thresholds(merge_blocks).typn

\* the anchor of a bubble is its first fragment; its box is the hull of all
AnchorIsFirst(b) ==
  LET first == b.blocks[1]
  IN /\ b.anchor_left = first.x
     /\ b.anchor_right = first.right
     /\ b.anchor_width = Max(1, first.right - first.x)
     /\ b.top = first.y
     /\ b.left = SeqMin(Lefts(b.blocks))
     /\ b.right = SeqMax(Rights(b.blocks))
     /\ b.bottom = SeqMax(Bottoms(b.blocks))
AnchorsFrozen ==
  pc \in {"merge", "convert"} =>
    \A k \in 1..Len(bubbles) : AnchorIsFirst(bubbles[k])
\* a merge keeps the anchor and can only widen the box
MergeKeepsAnchor ==
  LET k == Len(bubbles)
  IN Merged =>
       /\ bubbles'[k].anchor_left = CurrentBubble.anchor_left
       /\ bubbles'[k].anchor_right = CurrentBubble.anchor_right
       /\ bubbles'[k].anchor_width = CurrentBubble.anchor_width
       /\ bubbles'[k].left <= CurrentBubble.left
       /\ bubbles'[k].right >= CurrentBubble.right
       /\ bubbles'[k].bottom >= CurrentBubble.bottom
\* the fragment's edge against the edge of the bubble's first fragment
AlignedWithFirst ==
  LET first == CurrentBubble.blocks[1]
      diff == IF MergeSide = "left" THEN Abs(NextBlock.x - first.x)
              ELSE Abs(NextBlock.right - first.right)
      col_width == Max(8, Max(1, first.right - first.x))
  IN 100 * diff <= Max(600, Min(1800, 18 * col_width))
WithinLineBreak ==
  10 * Len(merge_blocks) * NextGap <= Thresholds(merge_blocks).lb10n
\* the continuation rule of a long bubble, which accepts similar widths too
LongBubbleContinuation ==
  /\ Len(CurrentBubble.blocks) >= 2
  /\ 10 * NextGap <= 22 * BubbleMedianGap(CurrentBubble)
  /\ WidthRatioAtLeast(CurrentBubble, NextBlock, 3, 4)

\* C20: a bubble's anchor (left edge, right edge, width) is that of its first
\* fragment and no merge changes it, while left, right and bottom only grow
\* outwards; alignment is judged against the first fragment: a fragment
\* aligned with it within the line-break gap is merged, and one not aligned
\* with it is merged only by the rules that do not ask for alignment.
C20_AnchorFrozen ==
  /\ []AnchorsFrozen
  /\ [][Deciding =>
          /\ MergeKeepsAnchor
          /\ (AlignedWithFirst /\ WithinLineBreak /\ ~GapExceedsMessageGap
                => Merged)
          /\ (Merged /\ ~AlignedWithFirst
                => WithinTypicalGap \/ LongBubbleContinuation)]_vars

\* a bubble whose box has grown past its anchor has just taken a fragment
\* that lines up with the first fragment and not with the one before it
C20_Witness ==
  /\ pc \in {"merge", "convert"}
  /\ pos > 1
  /\ bubbles # <<>>
  /\ LET b == bubbles[Len(bubbles)]
     IN /\ Len(b.blocks) = 3
        /\ b.blocks[3] = merge_blocks[pos - 1]
        /\ (b.left < b.anchor_left \/ b.right > b.anchor_right)
        /\ b.blocks[2].x # b.blocks[1].x
        /\ b.blocks[2].right # b.blocks[1].right
        /\ b.blocks[3].x = b.blocks[1].x
        /\ b.blocks[3].right = b.blocks[1].right
        /\ 2 * Len(merge_blocks) * (b.blocks[3].y - b.blocks[2].bottom)
             > 3 * Thresholds(merge_blocks).typn

\* C21: a step of the merge changes no bubble but the most recently created
\* one: every earlier bubble keeps its text, box, blocks and code state, and
\* a step that starts a new bubble leaves all existing bubbles as they were.
C21_FinalizedImmutable ==
  [][pc = "merge" =>
       /\ Len(bubbles') >= Len(bubbles)
       /\ \A k \in 1..(Len(bubbles) - 1) : bubbles'[k] = bubbles[k]
       /\ (Len(bubbles') > Len(bubbles) /\ bubbles # <<>>
             => bubbles'[Len(bubbles)] = CurrentBubble)]_vars

\* a fragment has been merged into a bubble that is not the first of its side
C21_Witness ==
  /\ pc \in {"merge", "convert"}
  /\ pos > 1
  /\ Len(bubbles) >= 2
  /\ Len(bubbles[Len(bubbles)].blocks) >= 2
  /\ bubbles[Len(bubbles)].blocks[Len(bubbles[Len(bubbles)].blocks)]
       = merge_blocks[pos - 1]

\* C22: a bubble is in code mode (is_code) exactly when its fragments have
\* triggered the code heuristic at least twice (code_hits >= 2).
C22_CodeLock ==
  pc \in {"merge", "convert"} =>
    \A k \in 1..Len(bubbles) :
      bubbles[k].is_code <=> bubbles[k].code_hits >= 2

\* the text is in the time/date/weekday pattern library
InPatternLibrary(t) == IsTimestamp(t) \/ IsSystemUI(t)
\* the distance of b's centre from the middle of the extent is at most
\* pct% of the extent's width
NearCentre(b, pct) ==
  100 * Abs(b.center_x2 - ExtentLeft - ExtentRight)
    <= 2 * pct * (ExtentRight - ExtentLeft)
\* b's vertical centre lies in the top or the bottom 15% of the extent
InEdgeBand(b) ==
  LET cy2 == 2 * b.y + b.height
      h == ExtentBottom - ExtentTop
  IN \/ 100 * (cy2 - 2 * ExtentTop) <= 2 * 15 * h
     \/ 100 * (2 * ExtentBottom - cy2) <= 2 * 15 * h

\* C23: a fragment is dropped as noise only if its text is in the pattern
\* library and it is near the horizontal centre (about 40%, here at most 45%)
\* or in the top or bottom 15% of the extent; and a fragment of the library
\* that is near the centre (within 35%) or in such a band is dropped.
C23_NoiseContentAndPosition ==
  InImage =>
    \A b \in Range(RawBlocks) :
       /\ b \notin Range(blocks) =>
            InPatternLibrary(b.text) /\ (NearCentre(b, 45) \/ InEdgeBand(b))
       /\ InPatternLibrary(b.text) /\ (NearCentre(b, 35) \/ InEdgeBand(b)) =>
            b \notin Range(blocks)

\* twice the centre x of each block
Centres(bs) == [i \in 1..Len(bs) |-> bs[i].center_x2]
BothSides == InImage /\ left_blocks # <<>> /\ right_blocks # <<>>

\* C24: when both groups are non-empty, the mean centre x of the left group
\* is strictly smaller than that of the right group, and no left fragment's
\* centre lies to the right of a right fragment's centre, whether the groups
\* come from the clustering or from the centre-threshold fallback.
C24_LeftIsLeftmost ==
  BothSides =>
    /\ SeqSum(Centres(left_blocks)) * Len(right_blocks)
         < SeqSum(Centres(right_blocks)) * Len(left_blocks)
    /\ \A l \in Range(left_blocks) : \A r \in Range(right_blocks) :
          l.center_x2 <= r.center_x2

\* the clustering itself has put fragments on both sides
C24_Witness ==
  /\ BothSides
  /\ ~fallback
  /\ Len(left_blocks) >= 2
  /\ \E l \in Range(left_blocks) : \E m \in Range(left_blocks) :
        l.center_x2 # m.center_x2

\* the extent of the fragments that are classified
SplitLeft == SeqMin(Lefts(blocks))
SplitWidth == SeqMax(Rights(blocks)) - SplitLeft
\* normalized left edge < 0.4 and normalized right edge > 0.5
LeftBiasedLong(b) ==
  /\ 10 * (b.x - SplitLeft) < 4 * SplitWidth
  /\ 2 * (b.right - SplitLeft) > SplitWidth
\* normalized right edge > 0.6 and normalized left edge < 0.5
RightBiasedLong(b) ==
  /\ 10 * (b.right - SplitLeft) > 6 * SplitWidth
  /\ 2 * (b.x - SplitLeft) < SplitWidth

\* one party's short line is flush left, the other's is flush right
TwoParties ==
  /\ \E b \in Range(blocks) :
        b.x = SplitLeft /\ 10 * (b.right - SplitLeft) < 4 * SplitWidth
  /\ \E b \in Range(blocks) :
        b.right = SplitLeft + SplitWidth /\ 10 * (b.x - SplitLeft) > 6 * SplitWidth

\* C25: in an image with both parties' fragments, a fragment whose left edge
\* is left-biased and whose right edge crosses the middle is on the left
\* side, and otherwise one whose right edge is right-biased and whose left
\* edge crosses the middle is on the right side.
C25_LongMessageCorrection ==
  (BothSides /\ TwoParties) =>
    \A b \in Range(blocks) :
       /\ LeftBiasedLong(b) => b \in Range(left_blocks)
       /\ (RightBiasedLong(b) /\ ~LeftBiasedLong(b)) => b \in Range(right_blocks)

\* the fast path has gone through the results of the provider
Collected == mode = "fast" /\ pc \notin {"start", "gather"} /\ outcome.kind # "raised"
Malformed(line) ==
  \/ line.text = "" \/ Strip(line.text) = ""
  \/ line.width <= 0 \/ line.height <= 0
WellFormedLines(i) ==
  KeepAt(images[i].lines,
         [k \in 1..Len(images[i].lines) |-> ~Malformed(images[i].lines[k])])

\* C26: a line with an empty text or a rectangle of non-positive width or
\* height yields no fragment and does not make its image a failed one; the
\* other lines of the image become its fragments, in order, with
\* right = x + width, bottom = y + height and the image's 1-based index.
C26_MalformedDropped ==
  Collected =>
    \A i \in 1..Len(images) :
       images[i].kind = "result" =>
         LET bs == BlocksOfImage(all_blocks, i)
             wf == WellFormedLines(i)
         IN /\ i \notin Range(failed_images)
            /\ Len(bs) = Len(wf)
            /\ \A k \in 1..Len(bs) :
                  /\ bs[k].text = Strip(wf[k].text)
                  /\ bs[k].x = wf[k].x /\ bs[k].y = wf[k].y
                  /\ bs[k].width = wf[k].width /\ bs[k].height = wf[k].height
                  /\ bs[k].right = wf[k].x + wf[k].width
                  /\ bs[k].bottom = wf[k].y + wf[k].height
                  /\ bs[k].image_index = i

\* the second image of a batch has lines of each malformed kind and two
\* well-formed lines, which are its fragments
C26_Witness ==
  /\ Collected
  /\ Len(images) >= 2
  /\ images[2].kind = "result"
  /\ \E l \in Range(images[2].lines) : l.width <= 0
  /\ \E l \in Range(images[2].lines) : l.height <= 0
  /\ \E l \in Range(images[2].lines) : l.text = ""
  /\ Len(BlocksOfImage(all_blocks, 2)) = 2

\* the lines of text of the messages returned
ReturnedLines ==
  UNION {Range(outcome.structured_messages[k].text) :
           k \in 1..Len(outcome.structured_messages)}

\* C27: the language of a response with messages is the CJK tag when a message text holds
\* a CJK character, ASCII letters or not; else the Latin tag when a text
\* holds ASCII letters; else "mixed".
C27_LanguageGuess ==
  (Returned /\ outcome.kind = "response" /\ outcome.structured_messages # <<>>) =>
    outcome.language =
      IF \E t \in ReturnedLines : HasCJK(t) THEN "zhongwen"
      ELSE IF \E t \in ReturnedLines : HasAsciiAlpha(t) THEN "yingwen"
      ELSE "mixed"

\* C27: the language of a response with messages is the CJK tag when a message text
\* holds a CJK character and none holds an ASCII letter, "mixed" when both a CJK
\* character and an ASCII letter occur, and the Latin tag when no text holds a CJK
\* character.
C27_LanguageBySet ==
  (Returned /\ outcome.kind = "response" /\ outcome.structured_messages # <<>>) =>
    outcome.language =
      IF \E t \in ReturnedLines : HasCJK(t)
        THEN IF \E t \in ReturnedLines : HasAsciiAlpha(t) THEN "mixed" ELSE "zhongwen"
        ELSE "yingwen"

C27_Witness ==
  /\ Returned /\ outcome.kind = "response"
  /\ Len(outcome.structured_messages) >= 2
  /\ \E t \in ReturnedLines : HasCJK(t) /\ ~HasAsciiAlpha(t)
  /\ \E t \in ReturnedLines : HasAsciiAlpha(t) /\ ~HasCJK(t)
  /\ outcome.language = "mixed"

\* the provider call of image k ends in an exception
TaskFails(k) == images[k].kind \in {"sdk_error", "raises"}
\* the provider call of image k yields no line of text
TaskYieldsNothing(k) ==
  ImageBlocks(volc_ocr_recognition_raw(images[k]), k) = <<>>

\* C28: whatever the provider does for each image (a result, an exception,
\* a payload that is not a dict, an empty result), the batch call ends with a
\* result and not with an exception; when no image yields text the result has
\* no message, and failed_images lists the images whose call failed.
C28_NothingFatal ==
  Ended =>
    /\ outcome.kind = "response"
    /\ (\A k \in 1..N : TaskFails(k) \/ TaskYieldsNothing(k)) =>
          outcome.structured_messages = <<>>
    /\ Range(outcome.failed_images) = {k \in 1..N : TaskFails(k)}

\* the box of b is the hull of its fragments
BoxIsHull(b) ==
  /\ b.top = SeqMin(Tops(b.blocks))
  /\ b.bottom = SeqMax(Bottoms(b.blocks))
  /\ b.left = SeqMin(Lefts(b.blocks))
  /\ b.right = SeqMax(Rights(b.blocks))
  /\ b.top = b.blocks[1].y

\* C29: at every step of the merge, and for the bubbles kept for the image,
\* a bubble's box is the hull of its fragments: top is the smallest y,
\* bottom the largest bottom, left the smallest x, right the largest right,
\* and top is the y of the bubble's first fragment.
C29_BoxContainment ==
  /\ pc \in {"merge", "convert"} =>
        \A k \in 1..Len(bubbles) : BoxIsHull(bubbles[k])
  /\ pc \in {"side", "merge", "convert", "finish"} =>
        \A k \in 1..Len(image_bubbles) : BoxIsHull(image_bubbles[k].bubble)

\* a bubble has grown downwards and sideways past its first fragment
C29_Witness ==
  /\ pc = "finish"
  /\ \E k \in 1..Len(image_bubbles) :
        LET b == image_bubbles[k].bubble
        IN /\ Len(b.blocks) >= 2
           /\ b.bottom > b.blocks[1].bottom
           /\ b.left < b.blocks[1].x
           /\ b.right > b.blocks[1].right

\* the requests of one identity and mode whose result went to the client on day d
Served(identity, m, d) ==
  {r \in 1..Len(requests) :
     /\ requests[r].pc = "served" /\ requests[r].identity = identity
     /\ requests[r].mode = m /\ requests[r].day = d}

AllRecorded == \A r \in 1..Len(requests) : requests[r].pc = "served" => requests[r].recorded

====
